---- MODULE Spec2Model ----
(***************************************************************************)
(* Secure-DataOps: the consumer's per-second aggregator and state store    *)
(* (etl/consumer_kinesis.py), the spike detector (detection/spike.py),     *)
(* the two producer scripts (etl/producer_crypto.py and                    *)
(* etl/producer_binance.py) and the read API (api/app.py).                 *)
(*                                                                         *)
(* The three programs are separate OS processes coupled by the streaming   *)
(* bus and by two files.  Each has its own next-state relation and its     *)
(* own specification over the shared variables; the bus's content is the   *)
(* consumer's input and is chosen by the environment.                      *)
(***************************************************************************)
EXTENDS Integers, Sequences, FiniteSets, TLC

VARIABLES
    now,               \* wall clock, whole seconds (time.time())
    \* ---- consumer (etl/consumer_kinesis.py, main) ----
    counts_by_second,  \* list[int] of finalized per-second counts
    current_second,    \* None or the second in progress
    counter,           \* records counted into current_second
    last_heartbeat,    \* wall-clock second of the last heartbeat
    last_record,       \* when get_records last returned a record (at first: the start)
    consumed,          \* the seconds (timestamp // 1000) of the trade records handled so far
    nread,             \* records handled since Init (trade records and bad ones)
    badRecords,        \* number of records whose handling raised in the parse
    \* ---- state store files ----
    metricsFile,       \* <STATE_DIR>/metrics.json
    alertsFile,        \* <STATE_DIR>/alerts.ndjson
    \* ---- write_json_atomic in steps, and its readers ----
    platform,          \* "posix" or "windows": what os.replace does to a target held open
    wpc,               \* where the writer is inside write_json_atomic
    wtry,              \* i of "for i in range(retries)"
    wdoc,              \* obj, the document being written
    wprior,            \* the target as it was when the call began
    tmpFile,           \* the sibling temporary file
    rfile,             \* the handle GET /metrics holds: "none", "live", "detached"
    rdoc,              \* content of the replaced file a detached handle still reads
    resp,              \* the read API's last response
    \* ---- producer (etl/producer_crypto.py, etl/producer_binance.py) ----
    program,           \* which of the two producer scripts runs: "crypto" or "binance"
    exit_flag,         \* set by signal_handler
    buffer,            \* records waiting for the object store
    last_flush,        \* _last_flush; 0 until the first trade frame
    ppc,               \* where the __main__ block is
    conn,              \* the WebSocket: "none", "open", "closing" (ws.close() was
                       \* called), "lost" (the upstream ended it)
    connects,          \* connections opened so far
    wake,              \* when the backoff sleep ends
    nframes,           \* frames handed to kraken_on_message since Init
    nextId,            \* number the next normalized trade gets
    bus,               \* records the streaming bus accepted, in order
    s3log,             \* successful put_object calls: [key, body], in order
    putCalls,          \* put_object calls made, failed ones included
    badFrames,         \* trade frames in which an entry failed to parse
    ticks,             \* times the producer's clock was advanced
    frameTrades,       \* trade entries in the last frame handed to the message callback
    endedAt,           \* when the last connection that ended did so (0: none has)
    \* ---- one call of zscore_spike (detection/spike.py) ----
    call,              \* its arguments: [series, window, threshold]
    ret                \* NoReturn, or its return value [is_spike, z]

consumerVars == <<counts_by_second, current_second, counter, last_heartbeat,
                  last_record, consumed, nread, badRecords>>
fileVars == <<metricsFile, alertsFile>>
storeVars == <<platform, wpc, wtry, wdoc, wprior, tmpFile, rfile, rdoc, resp>>
producerVars == <<endedAt, frameTrades, program, exit_flag, buffer, last_flush, ppc, conn, connects, wake, nframes,
                  nextId, bus, s3log, putCalls, badFrames, ticks>>
detectorVars == <<call, ret>>
vars == <<now, consumerVars, fileVars, storeVars, producerVars, detectorVars>>

(***************************************************************************)
(* Bounds of the model.                                                    *)
(***************************************************************************)
MaxTime == 5        \* the clock stops advancing here
MaxNewRecords == 3  \* trade records the consumer reads after Init
MaxBad == 1         \* records with an unparseable payload
WarmSeconds == 29   \* seconds already finalized in the warmed-up initial state
BaseSec == 10       \* event-time second of the first record of the stream

None == -1          \* Python's None for current_second (seconds are >= 0)

(***************************************************************************)
(* Small helpers.                                                          *)
(***************************************************************************)
RECURSIVE SumSeq(_)
SumSeq(s) == IF s = <<>> THEN 0 ELSE Head(s) + SumSeq(Tail(s))

RECURSIVE SumSq(_)
SumSq(s) == IF s = <<>> THEN 0 ELSE Head(s) * Head(s) + SumSq(Tail(s))

Max(a, b) == IF a >= b THEN a ELSE b
Min(a, b) == IF a <= b THEN a ELSE b
Sign(x) == IF x > 0 THEN 1 ELSE IF x < 0 THEN -1 ELSE 0

\* series[-window:] for window >= 1
LastN(s, n) == SubSeq(s, Max(1, Len(s) - n + 1), Len(s))

(***************************************************************************)
(* detection/spike.py                                                      *)
(*                                                                         *)
(* The floats are kept exact.  With S = sum(s), Q = sum(x*x), n = window   *)
(* and d = n*s[-1] - S:   s[-1] - mean = d/n,                              *)
(*   var = (n*Q - S*S) / (n * max(n-1,1)),                                 *)
(*   z*z = d*d*max(n-1,1) / (n*(n*Q - S*S))       when var > 0,            *)
(*   z   = d/n                                     when var = 0 (sd := 1). *)
(* z is the record [sgn, num, den] standing for sgn * sqrt(num/den).       *)
(***************************************************************************)
ZeroZ == [sgn |-> 0, num |-> 0, den |-> 1]

ZValue(s, window) ==
    LET S == SumSeq(s)
        Q == SumSq(s)
        d == window * s[Len(s)] - S
        B == window * (window * Q - S * S)
    IN  IF B = 0
        THEN [sgn |-> Sign(d), num |-> d * d, den |-> window * window]
        ELSE [sgn |-> Sign(d), num |-> d * d * Max(window - 1, 1), den |-> B]

ZAbsAtLeast(z, threshold) == z.num >= threshold * threshold * z.den

\* z >= threshold, for a threshold given as a whole number
ZAtLeast(z, threshold) ==
    IF threshold = 0 THEN z.sgn >= 0
    ELSE IF threshold > 0 THEN z.sgn > 0 /\ z.num >= threshold * threshold * z.den
    ELSE z.sgn >= 0 \/ z.num <= threshold * threshold * z.den

zscore_spike_unguarded(series, window, threshold) ==
    IF series = <<>> THEN [is_spike |-> FALSE, z |-> ZeroZ]
    ELSE LET z == ZValue(LastN(series, window), window)
         IN  [is_spike |-> ZAtLeast(z, threshold), z |-> z]

zscore_spike(series, window, threshold) ==
    IF Len(series) < window
    THEN [is_spike |-> FALSE, z |-> ZeroZ]
    ELSE LET z == ZValue(LastN(series, window), window)
         IN  [is_spike |-> ZAtLeast(z, threshold), z |-> z]

\* round(z, 4): a value below half a unit of the fourth decimal becomes 0.0;
\* the digits of a larger value are not represented.
Round4(z) ==
    IF z.num < (z.den + 399999999) \div 400000000 THEN ZeroZ ELSE z

(***************************************************************************)
(* The state store's documents.                                            *)
(***************************************************************************)
WINDOW == 30
THRESHOLD == 3
HEARTBEAT_SEC == 3

NoDoc == [last_updated_ms |-> -1, trades_per_sec |-> -1, window_size |-> -1,
          z |-> ZeroZ, is_spike |-> FALSE]

Missing == [state |-> "missing", doc |-> NoDoc]
Complete(doc) == [state |-> "complete", doc |-> doc]
Partial(doc) == [state |-> "partial", doc |-> doc]

\* int(time.time() * 1000) of a clock that counts whole seconds
NowMs(t) == t * 1000

HeartbeatDocUnstamped(t) ==
    [last_updated_ms |-> 0, trades_per_sec |-> 0, window_size |-> WINDOW,
     z |-> ZeroZ, is_spike |-> FALSE]

HeartbeatDocSpiking(t) ==
    [last_updated_ms |-> NowMs(t), trades_per_sec |-> 0, window_size |-> WINDOW,
     z |-> ZeroZ, is_spike |-> TRUE]

HeartbeatDoc(t) ==
    [last_updated_ms |-> NowMs(t), trades_per_sec |-> 0, window_size |-> WINDOW,
     z |-> ZeroZ, is_spike |-> FALSE]

MetricsDoc(t, cnt, r) ==
    [last_updated_ms |-> NowMs(t), trades_per_sec |-> cnt, window_size |-> WINDOW,
     z |-> Round4(r.z), is_spike |-> r.is_spike]

AlertOf(metrics, cnt) ==
    [ts_ms |-> metrics.last_updated_ms, count |-> cnt, z |-> metrics.z]

\* append_alert: open(..., "a") creates the file, then one line is written
append_alert(file, alert) ==
    [exists |-> TRUE, lines |-> Append(file.lines, alert)]

(***************************************************************************)
(* Consumer: one record of the read loop's "for r in records".             *)
(***************************************************************************)
SecondAdvanced(sec, cur) == sec > cur

SecondChanged(sec, cur) == sec # cur

AlertAlways(is_spike) == TRUE

AlertDue(is_spike) == is_spike

\* the seconds the environment may stamp on the next record
NextSecs ==
    IF consumed = <<>> THEN {BaseSec}
    ELSE LET c == consumed[Len(consumed)]
         IN  {c - 1, c, c + 1, c + 2}

ProcessRecord(ts_ms) ==
    LET sec == ts_ms \div 1000
        cur == IF current_second = None THEN sec ELSE current_second
    IN  /\ nread < MaxNewRecords
        /\ consumed' = Append(consumed, sec)
        /\ nread' = nread + 1
        /\ last_record' = now
        /\ IF SecondChanged(sec, cur)
           THEN LET series == Append(counts_by_second, counter)
                    r == zscore_spike(series, WINDOW, THRESHOLD)
                    metrics == MetricsDoc(now, counter, r)
                IN  /\ counts_by_second' = series
                    /\ metricsFile' = Complete(metrics)
                    /\ alertsFile' = IF AlertDue(r.is_spike)
                                     THEN append_alert(alertsFile, AlertOf(metrics, counter))
                                     ELSE alertsFile
                    /\ current_second' = sec
                    /\ counter' = 0 + 1
           ELSE /\ current_second' = cur
                /\ counter' = counter + 1
                /\ UNCHANGED <<counts_by_second, metricsFile, alertsFile>>
        /\ UNCHANGED <<now, last_heartbeat, badRecords, storeVars, producerVars, detectorVars>>

\* a record that closes a second while write_json_atomic (tmp.write_text fails:
\* the target is untouched) or append_alert (the open fails: nothing is
\* appended) raises; the except clause logs it and the loop goes on with the
\* next record, the assignments after the raising call not executed
RaisingCalls == {"write_json_atomic", "append_alert"}

ProcessRecordRaising(ts_ms, at) ==
    LET sec == ts_ms \div 1000
        cur == IF current_second = None THEN sec ELSE current_second
        series == Append(counts_by_second, counter)
        r == zscore_spike(series, WINDOW, THRESHOLD)
        metrics == MetricsDoc(now, counter, r)
    IN  /\ nread < MaxNewRecords
        /\ badRecords < MaxBad
        /\ SecondChanged(sec, cur)
        /\ at = "append_alert" => AlertDue(r.is_spike)
        /\ consumed' = Append(consumed, sec)
        /\ nread' = nread + 1
        /\ last_record' = now
        /\ badRecords' = badRecords + 1
        /\ counts_by_second' = series
        /\ metricsFile' = IF at = "write_json_atomic" THEN metricsFile ELSE Complete(metrics)
        /\ UNCHANGED <<now, current_second, counter, last_heartbeat, alertsFile,
                       storeVars, producerVars, detectorVars>>

\* a record whose payload json.loads or int() rejects: the except clause logs it
ProcessBadRecord ==
    /\ nread < MaxNewRecords
    /\ badRecords < MaxBad
    /\ badRecords' = badRecords + 1
    /\ nread' = nread + 1
    /\ last_record' = now
    /\ UNCHANGED <<now, counts_by_second, current_second, counter, last_heartbeat,
                   consumed, fileVars, storeVars, producerVars, detectorVars>>

\* get_records returned no records: the heartbeat branch of the loop
ReadEmpty ==
    /\ IF now - last_heartbeat > HEARTBEAT_SEC
       THEN /\ metricsFile' = Complete(HeartbeatDoc(now))
            /\ last_heartbeat' = now
       ELSE UNCHANGED <<metricsFile, last_heartbeat>>
    /\ UNCHANGED <<now, counts_by_second, current_second, counter, last_record, consumed,
                   nread, badRecords, alertsFile, storeVars, producerVars, detectorVars>>

\* time passes (the 0.5 s pacing sleep, blocking reads)
Tick ==
    /\ now < MaxTime
    /\ now' = now + 1
    /\ UNCHANGED <<consumerVars, fileVars, storeVars, producerVars, detectorVars>>

(***************************************************************************)
(* write_json_atomic, step by step, with a crash possible between any two  *)
(* steps.  tmp.write_text and path.write_text open the file with "w"       *)
(* (created or truncated: the content is incomplete) and then write it out. *)
(* os.replace raises PermissionError on Windows while a reader holds the   *)
(* target open; on POSIX it succeeds and the reader keeps the replaced     *)
(* file.                                                                   *)
(***************************************************************************)
RETRIES == 10
MaxCount == 2       \* largest trades_per_sec among the documents written
MaxAlerts == 3      \* lines the alert log grows to
MaxLimit == 4       \* largest limit asked of GET /alerts

Docs ==
    {HeartbeatDoc(now)} \cup
    {MetricsDoc(now, c, zscore_spike(<<c>>, WINDOW, THRESHOLD)) : c \in 1..MaxCount}

WriteBegin(obj) ==
    /\ wpc = "idle"
    /\ wdoc' = obj
    /\ wprior' = metricsFile
    /\ wtry' = 0
    /\ tmpFile' = Partial(obj)
    /\ wpc' = "tmp_open"
    /\ UNCHANGED <<now, consumerVars, detectorVars, producerVars, fileVars, platform, rfile, rdoc, resp>>

WriteTmpDone ==
    /\ wpc = "tmp_open"
    /\ tmpFile' = Complete(wdoc)
    /\ wpc' = "replace"
    /\ UNCHANGED <<now, consumerVars, detectorVars, producerVars, fileVars, platform, wtry, wdoc, wprior, rfile,
                   rdoc, resp>>

\* os.replace(tmp, path) raises PermissionError
ReplaceFails(plat, handle) == plat = "windows" /\ handle = "live"

AfterFailedTryGivesUp(i) == "inplace"

\* the loop's next position after attempt i failed and its sleep ended
AfterFailedTry(i) == IF i + 1 < RETRIES THEN "replace" ELSE "inplace"

TryReplace ==
    /\ wpc = "replace"
    /\ IF ReplaceFails(platform, rfile)
       THEN /\ wtry' = wtry + 1
            /\ wpc' = AfterFailedTry(wtry)
            /\ UNCHANGED <<metricsFile, tmpFile, rfile, rdoc>>
       ELSE /\ metricsFile' = tmpFile
            /\ tmpFile' = Missing
            /\ wpc' = "idle"
            /\ IF rfile = "live"
               THEN rfile' = "detached" /\ rdoc' = metricsFile
               ELSE UNCHANGED <<rfile, rdoc>>
            /\ UNCHANGED wtry
    /\ UNCHANGED <<now, consumerVars, detectorVars, producerVars, alertsFile, platform, wdoc, wprior, resp>>

\* the last resort: path.write_text opens the target itself with "w"
InPlaceOpen ==
    /\ wpc = "inplace"
    /\ metricsFile' = Partial(wdoc)
    /\ wpc' = "inplace_open"
    /\ UNCHANGED <<now, consumerVars, detectorVars, producerVars, alertsFile, platform, wtry, wdoc, wprior, tmpFile,
                   rfile, rdoc, resp>>

InPlaceDone ==
    /\ wpc = "inplace_open"
    /\ metricsFile' = Complete(wdoc)
    /\ wpc' = "unlink"
    /\ UNCHANGED <<now, consumerVars, detectorVars, producerVars, alertsFile, platform, wtry, wdoc, wprior, tmpFile,
                   rfile, rdoc, resp>>

\* what tmp.unlink() can do: on Windows it raises while another process
\* holds the temporary file open
UnlinkOutcomes(plat) == IF plat = "windows" THEN {TRUE, FALSE} ELSE {TRUE}

\* "try: tmp.unlink()  except Exception: pass", then the function returns
Unlink(ok) ==
    /\ wpc = "unlink"
    /\ tmpFile' = IF ok THEN Missing ELSE tmpFile
    /\ wpc' = "idle"
    /\ UNCHANGED <<now, consumerVars, detectorVars, producerVars, fileVars, platform, wtry, wdoc, wprior, rfile,
                   rdoc, resp>>

\* the consumer process dies inside write_json_atomic
Crash ==
    /\ wpc \notin {"idle", "crashed"}
    /\ wpc' = "crashed"
    /\ UNCHANGED <<now, consumerVars, detectorVars, producerVars, fileVars, platform, wtry, wdoc, wprior, tmpFile,
                   rfile, rdoc, resp>>

\* the consumer appends one alert (append_alert)
AppendAlert ==
    /\ wpc = "idle"
    /\ Len(alertsFile.lines) < MaxAlerts
    /\ alertsFile' = append_alert(alertsFile,
                        [ts_ms |-> NowMs(now), count |-> Len(alertsFile.lines) + 1,
                         z |-> ZeroZ])
    /\ UNCHANGED <<now, consumerVars, metricsFile, storeVars, producerVars, detectorVars>>

(***************************************************************************)
(* api/app.py                                                              *)
(***************************************************************************)
NoResponse == [endpoint |-> "none", status |-> 0, limit |-> 0, doc |-> NoDoc, body |-> <<>>]

MetricsResponse(status, doc) ==
    [endpoint |-> "metrics", status |-> status, limit |-> 0, doc |-> doc, body |-> <<>>]

\* s[start:] as Python slices
PySliceFrom(s, start) ==
    LET from == IF start < 0 THEN Max(Len(s) + start, 0) ELSE Min(start, Len(s))
    IN  SubSeq(s, from + 1, Len(s))

\* s[::-1]
Reverse(s) == [i \in 1..Len(s) |-> s[Len(s) + 1 - i]]

\* alerts(limit): the body GET /alerts returns
alerts(file, limit) ==
    IF ~file.exists THEN <<>>
    ELSE LET lines == file.lines
             out == IF lines # <<>> THEN PySliceFrom(lines, -limit) ELSE <<>>
         IN  Reverse(out)

GetAlerts(limit) ==
    /\ resp' = [endpoint |-> "alerts", status |-> 200, limit |-> limit, doc |-> NoDoc,
                body |-> alerts(alertsFile, limit)]
    /\ UNCHANGED <<now, consumerVars, detectorVars, producerVars, fileVars, platform, wpc, wtry, wdoc, wprior,
                   tmpFile, rfile, rdoc>>

\* metrics(): METRICS_PATH.exists(), then open
MetricsOpen ==
    /\ rfile = "none"
    /\ IF metricsFile.state = "missing"
       THEN resp' = MetricsResponse(404, NoDoc) /\ UNCHANGED rfile
       ELSE rfile' = "live" /\ UNCHANGED resp
    /\ UNCHANGED <<now, consumerVars, detectorVars, producerVars, fileVars, platform, wpc, wtry, wdoc, wprior,
                   tmpFile, rdoc>>

\* json.load(f): the document, or an uncaught JSONDecodeError, which the
\* framework answers with 500
LoadStatus(content) == IF content.state = "complete" THEN 200 ELSE 500

MetricsLoad ==
    /\ rfile # "none"
    /\ LET content == IF rfile = "live" THEN metricsFile ELSE rdoc
           status == LoadStatus(content)
       IN  resp' = MetricsResponse(status, IF status = 200 THEN content.doc ELSE NoDoc)
    /\ rfile' = "none"
    /\ UNCHANGED <<now, consumerVars, detectorVars, producerVars, fileVars, platform, wpc, wtry, wdoc, wprior,
                   tmpFile, rdoc>>

(***************************************************************************)
(* etl/producer_crypto.py                                                  *)
(***************************************************************************)
BATCH_SIZE == 10
FLUSH_INTERVAL_SEC == 5
BACKOFF_SEC == 5

MaxEvents == 4        \* what the producer's environment does to it after Init:
                      \* frames, clock advances, faults, lost connections, the signal
MaxFrameTrades == 2   \* trade entries in one frame
WarmRecords == 8      \* records already buffered in the warmed-up initial state

\* the producer's module globals and its two outputs, as flush_to_s3 sees them
ProducerState ==
    [buffer |-> buffer, last_flush |-> last_flush, s3log |-> s3log,
     putCalls |-> putCalls, raised |-> FALSE]

\* the object key: the minute path and int(time.time()) are both fixed by the second
KeyOf(t) == t

PutFailedClearing(st, t) ==
    [st EXCEPT !.putCalls = @ + 1, !.buffer = <<>>, !.last_flush = t, !.raised = TRUE]

\* s3.put_object raised: the lines after it do not run
PutFailed(st, t) == [st EXCEPT !.putCalls = @ + 1, !.raised = TRUE]

PutDone(st, t) ==
    [st EXCEPT !.putCalls = @ + 1,
               !.s3log = Append(@, [key |-> KeyOf(t), body |-> st.buffer]),
               !.buffer = <<>>,
               !.last_flush = t]

flush_to_s3(st, t, ok) ==
    IF st.buffer = <<>> THEN st
    ELSE IF ok THEN PutDone(st, t) ELSE PutFailed(st, t)

\* faults injected so far: failed put_record calls, failed put_object calls
\* and unparseable trade entries
Faults == ((nextId - 1) - Len(bus)) + (putCalls - Len(s3log)) + badFrames

\* connections that have ended or are ending
Ended == connects - (IF conn = "open" THEN 1 ELSE 0)

\* the binance script was interrupted (Ctrl+C with no handler installed)
Interrupted == program = "binance" /\ ppc \in {"interrupted", "done", "crashed"}

Events == nframes + ticks + Faults + Ended + (IF exit_flag \/ Interrupted THEN 1 ELSE 0)

S3Outcomes == IF Events < MaxEvents THEN {TRUE, FALSE} ELSE {TRUE}

\* the ids nextId .. nextId + m - 1
NewIds(m) == [i \in 1..m |-> nextId + i - 1]

SetProducerState(st) ==
    /\ buffer' = st.buffer
    /\ last_flush' = st.last_flush
    /\ s3log' = st.s3log
    /\ putCalls' = st.putCalls

\* signal_handler
Signal ==
    /\ program = "crypto"
    /\ Events < MaxEvents
    /\ ~exit_flag
    /\ ppc \notin {"done", "crashed"}
    /\ exit_flag' = TRUE
    /\ UNCHANGED <<now, consumerVars, detectorVars, fileVars, storeVars, endedAt, program, frameTrades, buffer, last_flush, ppc, conn,
                   connects, wake, nframes, nextId, bus, s3log, putCalls, badFrames, ticks>>

\* "while not exit_flag"
LoopTest ==
    /\ program = "crypto"
    /\ ppc = "loop"
    /\ ppc' = IF exit_flag THEN "final" ELSE "connect"
    /\ UNCHANGED <<now, consumerVars, detectorVars, fileVars, storeVars, endedAt, program, frameTrades, exit_flag, buffer, last_flush,
                   conn, connects, wake, nframes, nextId, bus, s3log, putCalls, badFrames, ticks>>

\* WebSocketApp(...) and ws.run_forever() up to the open socket
Connect ==
    /\ program = "crypto"
    /\ ppc = "connect"
    /\ connects' = connects + 1
    /\ conn' = "open"
    /\ ppc' = "running"
    /\ UNCHANGED <<now, consumerVars, detectorVars, fileVars, storeVars, endedAt, program, frameTrades, exit_flag, buffer, last_flush,
                   wake, nframes, nextId, bus, s3log, putCalls, badFrames, ticks>>

IgnoresFlag(flag) == FALSE

\* "if exit_flag:" at the head of kraken_on_message
ShouldClose(flag) == flag

\* a frame that is no trade frame: status, heartbeat, subscription ack
OnOtherMessage ==
    /\ program = "crypto"
    /\ ppc = "running" /\ conn = "open"
    /\ Events < MaxEvents
    /\ nframes' = nframes + 1
    /\ frameTrades' = 0
    /\ conn' = IF ShouldClose(exit_flag) THEN "closing" ELSE conn
    /\ UNCHANGED <<now, consumerVars, detectorVars, fileVars, storeVars, endedAt, program, exit_flag, buffer, last_flush,
                   ppc, connects, wake, nextId, bus, s3log, putCalls, badFrames, ticks>>

\* a trade frame of n entries; entry badAt (if not 0) fails to parse, the
\* put_record of entry busFailAt (if not 0) fails, put_object succeeds iff ok
OnTradeMessage(n, badAt, busFailAt, ok) ==
    /\ program = "crypto"
    /\ ppc = "running" /\ conn = "open"
    /\ Events < MaxEvents
    /\ nframes' = nframes + 1
    /\ frameTrades' = n
    /\ IF ShouldClose(exit_flag)
       THEN /\ conn' = "closing"
            /\ UNCHANGED <<buffer, last_flush, nextId, bus, s3log, putCalls, badFrames>>
       ELSE LET m == IF badAt = 0 THEN n ELSE badAt - 1
                ids == NewIds(m)
                sent == SelectSeq(ids, LAMBDA id : id # nextId + busFailAt - 1)
                st0 == [ProducerState EXCEPT !.buffer = buffer \o ids]
                st1 == IF Len(st0.buffer) >= BATCH_SIZE
                       THEN flush_to_s3(st0, now, ok) ELSE st0
                st2 == IF st1.raised THEN st1
                       ELSE IF st1.last_flush = 0
                            THEN [st1 EXCEPT !.last_flush = now]
                       ELSE IF now - st1.last_flush >= FLUSH_INTERVAL_SEC
                            THEN flush_to_s3(st1, now, ok)
                       ELSE st1
                injected == (IF badAt = 0 THEN 0 ELSE 1) + (IF busFailAt = 0 THEN 0 ELSE 1)
                             + (st2.putCalls - Len(st2.s3log)) - (putCalls - Len(s3log))
            IN  /\ busFailAt <= m
                /\ Events + 1 + injected <= MaxEvents
                /\ badFrames' = badFrames + (IF badAt = 0 THEN 0 ELSE 1)
                /\ nextId' = nextId + m
                /\ bus' = bus \o (IF busFailAt = 0 THEN ids ELSE sent)
                /\ SetProducerState(IF badAt = 0 THEN st2 ELSE st0)
                /\ UNCHANGED conn
    /\ UNCHANGED <<now, consumerVars, detectorVars, fileVars, storeVars, endedAt, program, exit_flag, ppc, connects, wake,
                   ticks>>

\* the upstream ends the connection (error or close frame)
ConnLost ==
    /\ program = "crypto"
    /\ ppc = "running" /\ conn = "open"
    /\ Events < MaxEvents
    /\ conn' = "lost"
    /\ UNCHANGED <<now, consumerVars, detectorVars, fileVars, storeVars, endedAt, program, frameTrades, exit_flag, buffer, last_flush,
                   ppc, connects, wake, nframes, nextId, bus, s3log, putCalls, badFrames, ticks>>

\* kraken_on_close, then run_forever ends: it returns, or it raises
OnClose(ok, raises) ==
    /\ program = "crypto"
    /\ ppc = "running" /\ conn \in {"closing", "lost"}
    /\ SetProducerState(flush_to_s3(ProducerState, now, ok))
    /\ conn' = "none"
    /\ endedAt' = now
    /\ ppc' = IF raises THEN "except" ELSE "loop"
    /\ UNCHANGED <<now, consumerVars, detectorVars, fileVars, storeVars, program, frameTrades, exit_flag, connects, wake,
                   nframes, nextId, bus, badFrames, ticks>>

\* "except Exception": break on exit_flag, else start the 5 s sleep
ExceptBranch ==
    /\ program = "crypto"
    /\ ppc = "except"
    /\ IF exit_flag
       THEN ppc' = "final" /\ UNCHANGED wake
       ELSE ppc' = "backoff" /\ wake' = now + BACKOFF_SEC
    /\ UNCHANGED <<now, consumerVars, detectorVars, fileVars, storeVars, endedAt, program, frameTrades, exit_flag, buffer, last_flush,
                   conn, connects, nframes, nextId, bus, s3log, putCalls, badFrames, ticks>>

\* time.sleep(5) returns
BackoffDone ==
    /\ program = "crypto"
    /\ ppc = "backoff"
    /\ now >= wake
    /\ ppc' = "loop"
    /\ UNCHANGED <<now, consumerVars, detectorVars, fileVars, storeVars, endedAt, program, frameTrades, exit_flag, buffer, last_flush,
                   conn, connects, wake, nframes, nextId, bus, s3log, putCalls, badFrames, ticks>>

\* the final flush_to_s3() and the end of the process
FinalFlush(ok) ==
    /\ program = "crypto"
    /\ ppc = "final"
    /\ LET st == flush_to_s3(ProducerState, now, ok)
       IN  /\ SetProducerState(st)
           /\ ppc' = IF st.raised THEN "crashed" ELSE "done"
    /\ UNCHANGED <<now, consumerVars, detectorVars, fileVars, storeVars, endedAt, program, frameTrades, exit_flag, conn, connects, wake,
                   nframes, nextId, bus, badFrames, ticks>>

\* d seconds pass where the producer blocks: inside run_forever and in the sleep
ProducerTick(d) ==
    /\ Events < MaxEvents
    /\ ppc \in {"running", "backoff"}
    /\ now' = now + d
    /\ ticks' = ticks + 1
    /\ UNCHANGED <<consumerVars, detectorVars, fileVars, storeVars, endedAt, program, frameTrades, exit_flag, buffer, last_flush,
                   ppc,
                   conn, connects, wake, nframes, nextId, bus, s3log, putCalls, badFrames>>

(***************************************************************************)
(* etl/producer_binance.py: the same pipeline without exit_flag and        *)
(* without a flush clock.  It buffers a record before publishing it,       *)
(* publishes with put_records (whose exception it does not catch in the    *)
(* helper) and tests the batch size after every record.                    *)
(***************************************************************************)
BINANCE_BATCH_SIZE == 100

\* the script's global and its outputs, as one callback sees them
BinanceState ==
    [buffer |-> buffer, s3log |-> s3log, putCalls |-> putCalls, bus |-> bus,
     nextId |-> nextId, badFrames |-> badFrames, raised |-> FALSE]

\* s3.put_object raised: "buffer = []" does not run
BinancePutFailed(st, t) == [st EXCEPT !.putCalls = @ + 1, !.raised = TRUE]

BinancePutDone(st, t) ==
    [st EXCEPT !.putCalls = @ + 1,
               !.s3log = Append(@, [key |-> KeyOf(t), body |-> st.buffer]),
               !.buffer = <<>>]

binance_flush_to_s3(st, t, ok) ==
    IF st.buffer = <<>> THEN st
    ELSE IF ok THEN BinancePutDone(st, t) ELSE BinancePutFailed(st, t)

\* send_batch_to_kinesis([rec]): one put_records call, its exception propagates
send_batch_to_kinesis(st, rec, ok) ==
    IF ok THEN [st EXCEPT !.bus = Append(@, rec)] ELSE [st EXCEPT !.raised = TRUE]

\* "for t in trades" from entry i on: parse, buffer, publish, size-based flush;
\* the first exception ends the loop
RECURSIVE BinanceTrades(_, _, _, _, _, _, _)
BinanceTrades(st, i, n, badAt, busFailAt, t, ok) ==
    IF i > n \/ st.raised THEN st
    ELSE IF i = badAt THEN [st EXCEPT !.badFrames = @ + 1, !.raised = TRUE]
    ELSE LET rec == st.nextId
             a == [st EXCEPT !.buffer = Append(@, rec), !.nextId = @ + 1]
             b == send_batch_to_kinesis(a, rec, i # busFailAt)
             c == IF b.raised \/ Len(b.buffer) < BINANCE_BATCH_SIZE THEN b
                  ELSE binance_flush_to_s3(b, t, ok)
         IN  BinanceTrades(c, i + 1, n, badAt, busFailAt, t, ok)

\* "while True"
BinanceLoop ==
    /\ program = "binance"
    /\ ppc = "loop"
    /\ ppc' = "connect"
    /\ UNCHANGED <<now, consumerVars, detectorVars, fileVars, storeVars, endedAt, program, frameTrades, exit_flag, buffer, last_flush,
                   conn, connects, wake, nframes, nextId, bus, s3log, putCalls, badFrames, ticks>>

\* run_ws() and ws.run_forever() up to the open socket
BinanceConnect ==
    /\ program = "binance"
    /\ ppc = "connect"
    /\ connects' = connects + 1
    /\ conn' = "open"
    /\ ppc' = "running"
    /\ UNCHANGED <<now, consumerVars, detectorVars, fileVars, storeVars, endedAt, program, frameTrades, exit_flag, buffer, last_flush,
                   wake, nframes, nextId, bus, s3log, putCalls, badFrames, ticks>>

\* a frame that is no trade frame
BinanceOnOtherMessage ==
    /\ program = "binance"
    /\ ppc = "running" /\ conn = "open"
    /\ Events < MaxEvents
    /\ nframes' = nframes + 1
    /\ frameTrades' = 0
    /\ UNCHANGED <<now, consumerVars, detectorVars, fileVars, storeVars, endedAt, program, exit_flag, buffer, last_flush,
                   ppc, conn, connects, wake, nextId, bus, s3log, putCalls, badFrames, ticks>>

\* a trade frame of n entries; entry badAt (if not 0) fails to parse, the
\* put_records of entry busFailAt (if not 0) raises, put_object succeeds iff ok
BinanceOnTradeMessage(n, badAt, busFailAt, ok) ==
    /\ program = "binance"
    /\ ppc = "running" /\ conn = "open"
    /\ Events < MaxEvents
    /\ nframes' = nframes + 1
    /\ frameTrades' = n
    /\ LET st == BinanceTrades(BinanceState, 1, n, badAt, busFailAt, now, ok)
       IN  /\ buffer' = st.buffer
           /\ s3log' = st.s3log
           /\ putCalls' = st.putCalls
           /\ bus' = st.bus
           /\ nextId' = st.nextId
           /\ badFrames' = st.badFrames
    /\ UNCHANGED <<now, consumerVars, detectorVars, fileVars, storeVars, endedAt, program, exit_flag, last_flush, ppc,
                   conn, connects, wake, ticks>>
    /\ Events' <= MaxEvents

\* the upstream ends the connection
BinanceConnLost ==
    /\ program = "binance"
    /\ ppc = "running" /\ conn = "open"
    /\ Events < MaxEvents
    /\ conn' = "lost"
    /\ UNCHANGED <<now, consumerVars, detectorVars, fileVars, storeVars, endedAt, program, frameTrades, exit_flag, buffer, last_flush,
                   ppc, connects, wake, nframes, nextId, bus, s3log, putCalls, badFrames, ticks>>

\* the on_close lambda (print, flush_to_s3()), then run_forever ends: it
\* returns, raises, or lets the pending KeyboardInterrupt go on
BinanceOnClose(ok, raises) ==
    /\ program = "binance"
    /\ ppc \in {"running", "interrupted"} /\ conn = "lost"
    /\ LET st == binance_flush_to_s3(BinanceState, now, ok)
       IN  /\ buffer' = st.buffer
           /\ s3log' = st.s3log
           /\ putCalls' = st.putCalls
    /\ conn' = "none"
    /\ endedAt' = now
    /\ ppc' = IF ppc = "interrupted" THEN ppc ELSE IF raises THEN "except" ELSE "loop"
    /\ UNCHANGED <<now, consumerVars, detectorVars, fileVars, storeVars, program, frameTrades, exit_flag, last_flush,
                   connects, wake, nframes, nextId, bus, badFrames, ticks>>

\* "except Exception": start the 5 s sleep
BinanceExcept ==
    /\ program = "binance"
    /\ ppc = "except"
    /\ ppc' = "backoff"
    /\ wake' = now + BACKOFF_SEC
    /\ UNCHANGED <<now, consumerVars, detectorVars, fileVars, storeVars, endedAt, program, frameTrades, exit_flag, buffer, last_flush,
                   conn, connects, nframes, nextId, bus, s3log, putCalls, badFrames, ticks>>

\* time.sleep(5) returns
BinanceBackoffDone ==
    /\ program = "binance"
    /\ ppc = "backoff"
    /\ now >= wake
    /\ ppc' = "loop"
    /\ UNCHANGED <<now, consumerVars, detectorVars, fileVars, storeVars, endedAt, program, frameTrades, exit_flag, buffer, last_flush,
                   conn, connects, wake, nframes, nextId, bus, s3log, putCalls, badFrames, ticks>>

\* Ctrl+C: KeyboardInterrupt in the main thread.  Inside the try block it
\* reaches "except KeyboardInterrupt" (the socket library may run on_close
\* first, or end run_forever normally instead: swallowed); outside it, in
\* the except clause's sleep or between two iterations, nothing catches it.
BinanceInterrupt(swallowed) ==
    /\ program = "binance"
    /\ Events < MaxEvents
    /\ ppc \in {"loop", "connect", "running", "except", "backoff"}
    /\ IF swallowed
       THEN /\ ppc = "running" /\ conn = "open"
            /\ conn' = "lost"
            /\ UNCHANGED ppc
       ELSE /\ ppc' = IF ppc \in {"connect", "running"} THEN "interrupted" ELSE "crashed"
            /\ conn' = IF conn \in {"open", "lost"} /\ ppc = "running" THEN "lost" ELSE "none"
    /\ UNCHANGED <<now, consumerVars, detectorVars, fileVars, storeVars, endedAt, program, frameTrades, exit_flag, buffer, last_flush,
                   connects, wake, nframes, nextId, bus, s3log, putCalls, badFrames, ticks>>

\* "except KeyboardInterrupt": flush_to_s3(), break
BinanceInterruptFlush(ok) ==
    /\ program = "binance"
    /\ ppc = "interrupted"
    /\ LET st == binance_flush_to_s3(BinanceState, now, ok)
       IN  /\ buffer' = st.buffer
           /\ s3log' = st.s3log
           /\ putCalls' = st.putCalls
           /\ ppc' = IF st.raised THEN "crashed" ELSE "done"
    /\ conn' = "none"
    /\ UNCHANGED <<now, consumerVars, detectorVars, fileVars, storeVars, endedAt, program, frameTrades, exit_flag, last_flush,
                   connects, wake, nframes, nextId, bus, badFrames, ticks>>

(***************************************************************************)
(* One call of zscore_spike on arguments of the caller's choice: short     *)
(* series over small counts with every window that fits, and the series of *)
(* tests/test_detection.py ([10]*29 + [x]) with the window of 30.          *)
(***************************************************************************)
DetMaxLen == 3        \* longest short series, and largest window tried on them
DetMaxValue == 3      \* largest count in a short series
DetMaxThreshold == 3  \* thresholds run from -DetMaxThreshold to DetMaxThreshold

\* [10]*29 + [x]
TestSeries(x) == [i \in 1..WINDOW |-> IF i < WINDOW THEN 10 ELSE x]

NoCall == [series |-> <<>>, window |-> WINDOW, threshold |-> THRESHOLD]

Calls ==
    {[series |-> s, window |-> w, threshold |-> t] :
        s \in UNION {[1..n -> 0..DetMaxValue] : n \in 0..DetMaxLen},
        w \in 1..DetMaxLen,
        t \in (-DetMaxThreshold)..DetMaxThreshold}
    \cup
    {[series |-> TestSeries(x), window |-> WINDOW, threshold |-> t] :
        x \in {0, 10, 50}, t \in (-DetMaxThreshold)..DetMaxThreshold}

\* the call returns
Detect ==
    /\ ret = <<>>
    /\ ret' = <<zscore_spike(call.series, call.window, call.threshold)>>
    /\ UNCHANGED <<now, consumerVars, fileVars, storeVars, producerVars, call>>

(***************************************************************************)
(* Initial states: the consumer right after main()'s first lines, and the  *)
(* consumer after WarmSeconds quiet seconds of one trade each (the state   *)
(* the cold one reaches by reading BaseSec, BaseSec+1, ... one record per  *)
(* second within the first wall-clock second).                             *)
(***************************************************************************)
RECURSIVE Ones(_)
Ones(n) == IF n = 0 THEN <<>> ELSE Append(Ones(n - 1), 1)

RECURSIVE Range(_, _)
Range(a, n) == IF n = 0 THEN <<>> ELSE Append(Range(a, n - 1), a + n - 1)

InitCold ==
    /\ counts_by_second = <<>>
    /\ current_second = None
    /\ counter = 0
    /\ consumed = <<>>
    /\ metricsFile = Missing

InitWarm ==
    /\ counts_by_second = Ones(WarmSeconds)
    /\ current_second = BaseSec + WarmSeconds
    /\ counter = 1
    /\ consumed = Range(BaseSec, WarmSeconds + 1)
    /\ metricsFile = Complete(MetricsDoc(1, 1, zscore_spike(Ones(WarmSeconds), WINDOW, THRESHOLD)))

InitCommon ==
    /\ now = 1
    /\ last_heartbeat = 1
    /\ last_record = 1
    /\ nread = 0
    /\ badRecords = 0
    /\ alertsFile = [exists |-> FALSE, lines |-> <<>>]
    /\ wpc = "idle"
    /\ wtry = 0
    /\ wdoc = NoDoc
    /\ wprior = Missing
    /\ tmpFile = Missing
    /\ rfile = "none"
    /\ rdoc = Missing
    /\ resp = NoResponse

\* no detector call of the caller's own
InitNoCall ==
    /\ call = NoCall
    /\ ret = <<>>

\* the producer at the top of its __main__ block
InitProducerFresh ==
    /\ exit_flag = FALSE
    /\ buffer = <<>>
    /\ last_flush = 0
    /\ ppc = "loop"
    /\ conn = "none"
    /\ connects = 0
    /\ wake = 0
    /\ nframes = 0
    /\ nextId = 1
    /\ bus = <<>>
    /\ s3log = <<>>
    /\ putCalls = 0
    /\ badFrames = 0
    /\ ticks = 0
    /\ frameTrades = 0
    /\ endedAt = 0

\* records buffered in the warmed-up state: as far below the batch size in
\* either script
WarmBuffered(prog) ==
    IF prog = "crypto" THEN WarmRecords ELSE BINANCE_BATCH_SIZE - (BATCH_SIZE - WarmRecords)

\* the producer after that many single-trade frames within its first second
InitProducerWarm ==
    /\ exit_flag = FALSE
    /\ buffer = Range(1, WarmBuffered(program))
    /\ last_flush = (IF program = "crypto" THEN 1 ELSE 0)
    /\ ppc = "running"
    /\ conn = "open"
    /\ connects = 1
    /\ wake = 0
    /\ nframes = 0
    /\ nextId = WarmBuffered(program) + 1
    /\ bus = Range(1, WarmBuffered(program))
    /\ s3log = <<>>
    /\ putCalls = 0
    /\ badFrames = 0
    /\ ticks = 0
    /\ frameTrades = 1
    /\ endedAt = 0

InitConsumer ==
    /\ InitCommon
    /\ InitCold \/ InitWarm
    /\ platform = "posix"
    /\ program = "crypto"
    /\ InitProducerFresh
    /\ InitNoCall

InitStore ==
    /\ InitCommon
    /\ InitCold
    /\ platform \in {"posix", "windows"}
    /\ program = "crypto"
    /\ InitProducerFresh
    /\ InitNoCall

InitProducer ==
    /\ InitCommon
    /\ InitCold
    /\ platform = "posix"
    /\ program \in {"crypto", "binance"}
    /\ InitProducerFresh \/ InitProducerWarm
    /\ InitNoCall

InitDetector ==
    /\ InitCommon
    /\ InitCold
    /\ platform = "posix"
    /\ program = "crypto"
    /\ InitProducerFresh
    /\ call \in Calls
    /\ ret = <<>>

NextConsumer ==
    \/ \E s \in NextSecs : \E off \in {0, 999} : ProcessRecord(s * 1000 + off)
    \/ ProcessBadRecord
    \/ ReadEmpty
    \/ Tick

SpecConsumer == InitConsumer /\ [][NextConsumer]_vars

\* the consumer with a metrics write or an alert append that can raise
NextConsumerFault ==
    \/ NextConsumer
    \/ \E s \in NextSecs : \E at \in RaisingCalls : ProcessRecordRaising(s * 1000, at)

SpecConsumerFault == InitConsumer /\ [][NextConsumerFault]_vars

NextStore ==
    \/ \E obj \in Docs : WriteBegin(obj)
    \/ WriteTmpDone
    \/ TryReplace
    \/ InPlaceOpen
    \/ InPlaceDone
    \/ \E ok \in UnlinkOutcomes(platform) : Unlink(ok)
    \/ Crash
    \/ AppendAlert
    \/ \E limit \in -1..MaxLimit : GetAlerts(limit)
    \/ MetricsOpen
    \/ MetricsLoad

SpecStore == InitStore /\ [][NextStore]_vars

NextProducer ==
    \/ Signal
    \/ LoopTest
    \/ Connect
    \/ OnOtherMessage
    \/ \E n \in 1..MaxFrameTrades : \E badAt \in 0..n : \E busFailAt \in 0..n :
          \E ok \in S3Outcomes : OnTradeMessage(n, badAt, busFailAt, ok)
    \/ ConnLost
    \/ \E ok \in S3Outcomes : \E raises \in BOOLEAN : OnClose(ok, raises)
    \/ ExceptBranch
    \/ BackoffDone
    \/ \E ok \in S3Outcomes : FinalFlush(ok)
    \/ \E d \in {1, FLUSH_INTERVAL_SEC} : ProducerTick(d)
    \/ BinanceLoop
    \/ BinanceConnect
    \/ BinanceOnOtherMessage
    \/ \E n \in 1..MaxFrameTrades : \E badAt \in 0..n : \E busFailAt \in 0..n :
          \E ok \in S3Outcomes : BinanceOnTradeMessage(n, badAt, busFailAt, ok)
    \/ BinanceConnLost
    \/ \E ok \in S3Outcomes : \E raises \in BOOLEAN : BinanceOnClose(ok, raises)
    \/ BinanceExcept
    \/ BinanceBackoffDone
    \/ \E swallowed \in BOOLEAN : BinanceInterrupt(swallowed)
    \/ \E ok \in S3Outcomes : BinanceInterruptFlush(ok)

SpecProducer == InitProducer /\ [][NextProducer]_vars

\* the callbacks and the __main__ block run when they are due: a closing socket
\* gets its on_close, and straight-line code of the main thread goes on
ProducerFairness ==
    /\ WF_vars(\E ok \in S3Outcomes : \E raises \in BOOLEAN : OnClose(ok, raises))
    /\ WF_vars(LoopTest)
    /\ WF_vars(ExceptBranch)
    /\ WF_vars(\E ok \in S3Outcomes : FinalFlush(ok))

SpecProducerLive == SpecProducer /\ ProducerFairness

NextDetector == Detect

SpecDetector == InitDetector /\ [][NextDetector]_vars

(***************************************************************************)
(* Reference notions over the stream the consumer has read.                *)
(***************************************************************************)
Front(h) == SubSeq(h, 1, Len(h) - 1)

Occurrences(h, sec) == Cardinality({j \in DOMAIN h : h[j] = sec})

\* sizes of the maximal runs of consecutive equal seconds
RECURSIVE RunSizes(_)
RunSizes(h) ==
    IF h = <<>> THEN <<>>
    ELSE IF Len(h) = 1 THEN <<1>>
    ELSE LET r == RunSizes(Front(h))
         IN  IF h[Len(h)] = h[Len(h) - 1]
             THEN [r EXCEPT ![Len(r)] = r[Len(r)] + 1]
             ELSE Append(r, 1)

\* the distinct seconds of h, in order of first appearance
RECURSIVE KeysInOrder(_)
KeysInOrder(h) ==
    IF h = <<>> THEN <<>>
    ELSE LET k == KeysInOrder(Front(h))
         IN  IF \E i \in DOMAIN k : k[i] = h[Len(h)] THEN k ELSE Append(k, h[Len(h)])

\* group sizes of the partition of h by second, without the still-open last second
PartitionSizes(h) ==
    IF h = <<>> THEN <<>>
    ELSE LET closed == SelectSeq(KeysInOrder(h), LAMBDA sec : sec # h[Len(h)])
         IN  [i \in 1..Len(closed) |-> Occurrences(h, closed[i])]

\* the indices of counts_by_second at which the detector, run on the series as
\* it stood after that finalization, signalled a spike
SpikeIndices(series) ==
    {i \in 1..Len(series) :
        zscore_spike(SubSeq(series, 1, i), WINDOW, THRESHOLD).is_spike}

RECURSIVE SortedSeq(_)
SortedSeq(S) ==
    IF S = {} THEN <<>>
    ELSE LET m == CHOOSE x \in S : \A y \in S : x <= y
         IN  <<m>> \o SortedSeq(S \ {m})

(***************************************************************************)
(* C1 as stated: the finalized counts are the group sizes of the partition *)
(* of the records read by timestamp // 1000, the still-open last second    *)
(* excluded.  A late record refutes it.                                    *)
(***************************************************************************)
C1_PartitionByKey == counts_by_second = PartitionSizes(consumed)

(***************************************************************************)
(* C1 amended: the finalized counts are the sizes of the maximal runs of   *)
(* consecutive records with equal timestamp // 1000, the still-open last   *)
(* run excluded; the open run is (current_second, counter).                *)
(***************************************************************************)
C1_RunPartition ==
    /\ counts_by_second = Front(RunSizes(consumed))
    /\ consumed # <<>> =>
         /\ counter = RunSizes(consumed)[Len(RunSizes(consumed))]
         /\ current_second = consumed[Len(consumed)]

C1_Witness ==
    /\ nread >= 3
    /\ \E i \in 1..(Len(consumed) - 2) :
         /\ consumed[i + 1] < consumed[i]
         /\ consumed[i + 2] > consumed[i + 1]
    /\ \E i \in 1..(Len(consumed) - 1) : consumed[i + 1] = consumed[i]

(***************************************************************************)
(* C2: the alert log holds one alert per finalization whose detector       *)
(* result was a spike and none for the others: its lines are, in order,    *)
(* the counts of the spiking finalizations.                                *)
(***************************************************************************)
C2_AlertPerSpike ==
    LET idx == SortedSeq(SpikeIndices(counts_by_second))
    IN  /\ Len(alertsFile.lines) = Len(idx)
        /\ \A k \in 1..Len(idx) : alertsFile.lines[k].count = counts_by_second[idx[k]]
        /\ alertsFile.exists = (idx # <<>>)

C2_Witness ==
    /\ Len(alertsFile.lines) = 1
    /\ Len(counts_by_second) > WINDOW
    /\ last_heartbeat > 1

(***************************************************************************)
(* C6: a heartbeat (the only step that moves last_heartbeat) happens more  *)
(* than 3 s after the previous one, writes the snapshot trades_per_sec=0,  *)
(* z=0.0, is_spike=false and leaves counts_by_second, current_second,      *)
(* counter and the alert log unchanged.                                    *)
(***************************************************************************)
C6_HeartbeatFrame ==
    [][last_heartbeat' # last_heartbeat =>
        /\ now - last_heartbeat > 3
        /\ last_heartbeat' = now
        /\ metricsFile'.state = "complete"
        /\ metricsFile'.doc.trades_per_sec = 0
        /\ metricsFile'.doc.z = ZeroZ
        /\ metricsFile'.doc.is_spike = FALSE
        /\ metricsFile'.doc.window_size = 30
        /\ metricsFile'.doc.last_updated_ms = now * 1000
        /\ UNCHANGED <<counts_by_second, current_second, counter, alertsFile>>]_vars

C6_Witness ==
    /\ last_heartbeat > 1
    /\ metricsFile.state = "complete"
    /\ metricsFile.doc.trades_per_sec = 0
    /\ alertsFile.lines # <<>>
    /\ counter > 0

(***************************************************************************)
(* C7 as stated: counts_by_second[i] is the number of records whose        *)
(* timestamp // 1000 is (second of the first record) + i, indices counted  *)
(* from 0.  A second without records between two seconds with records      *)
(* refutes it.                                                             *)
(***************************************************************************)
C7_IndexIsSecond ==
    \A i \in 1..Len(counts_by_second) :
        counts_by_second[i] = Occurrences(consumed, consumed[1] + i - 1)

(***************************************************************************)
(* C3 as stated: whenever the consumer has crashed inside                  *)
(* write_json_atomic, the metrics file is the complete document it was     *)
(* before the call or the complete new document.  A crash during the       *)
(* in-place overwrite of the fallback path refutes it.                     *)
(***************************************************************************)
C3_CrashSafe == wpc = "crashed" => metricsFile \in {wprior, Complete(wdoc)}

(***************************************************************************)
(* C9 as stated, for limits n >= 0: GET /alerts answers with at most n     *)
(* entries, the last min(n, number of lines) lines of the log, newest      *)
(* first.  limit = 0 refutes it.                                           *)
(***************************************************************************)
C9_LastNReversed ==
    [][(resp' # resp /\ resp'.endpoint = "alerts" /\ resp'.limit >= 0) =>
        LET n == resp'.limit
            lines == alertsFile.lines
            k == Min(n, Len(lines))
        IN  /\ Len(resp'.body) <= n
            /\ resp'.body = Reverse(SubSeq(lines, Len(lines) - k + 1, Len(lines)))]_vars

(***************************************************************************)
(* C10 as stated: GET /metrics answers 200 with the snapshot or 404, never *)
(* 500.  A metrics file caught in the middle of the in-place overwrite     *)
(* refutes it.                                                             *)
(***************************************************************************)
C10_NotReadyIs404 ==
    resp.endpoint = "metrics" =>
        \/ resp.status = 200 /\ resp.doc # NoDoc
        \/ resp.status = 404

IsPrefix(a, b) == Len(a) <= Len(b) /\ SubSeq(b, 1, Len(a)) = a

(***************************************************************************)
(* C4: a step in which put_object was called and no upload succeeded       *)
(* leaves every buffered record in place, in order (records received in    *)
(* the same callback are appended behind them), and leaves last_flush as   *)
(* it was; the buffer loses records only in a step whose upload succeeded, *)
(* and that upload carried them all.                                       *)
(***************************************************************************)
C4_FailedUploadKeepsBuffer ==
    [][/\ (putCalls' > putCalls /\ Len(s3log') = Len(s3log)) =>
            (IsPrefix(buffer, buffer') /\ last_flush' = last_flush)
       /\ ~IsPrefix(buffer, buffer') =>
            /\ Len(s3log') = Len(s3log) + 1
            /\ IsPrefix(buffer, s3log'[Len(s3log')].body)
            /\ \A j \in DOMAIN buffer' : buffer'[j] >= nextId
            /\ program = "crypto" => (buffer' = <<>> /\ last_flush' = now)]_vars

\* an upload failed, and a later one carried the records it had been offered
C4_Witness ==
    /\ putCalls = 2
    /\ Len(s3log) = 1
    /\ buffer = <<>>
    /\ Len(s3log[1].body) >= BATCH_SIZE

(***************************************************************************)
(* C5 as stated: records do not stay in the buffer of a connected producer *)
(* whose uploads all succeeded once more than FLUSH_INTERVAL_SEC have      *)
(* passed since last_flush.  A feed that goes quiet refutes it.            *)
(***************************************************************************)
C5_TimeFlush ==
    (/\ ppc = "running" /\ conn = "open"
     /\ ~exit_flag
     /\ buffer # <<>>
     /\ last_flush # 0
     /\ putCalls = Len(s3log)) => now - last_flush <= FLUSH_INTERVAL_SEC

(***************************************************************************)
(* C8: once exit_flag is set, a message callback closes the socket and     *)
(* neither publishes nor buffers; the reconnect loop, unless it had        *)
(* already passed its test, opens no connection any more; after the        *)
(* callback closed the socket the process ends; and when it ends without   *)
(* a failed final upload the buffer is empty.                              *)
(***************************************************************************)
C8_Shutdown ==
    /\ [][(exit_flag /\ nframes' # nframes) =>
            (conn' = "closing" /\ UNCHANGED <<bus, buffer, s3log, putCalls, nextId>>)]_vars
    /\ [][(exit_flag /\ ppc # "connect") =>
            (ppc' # "connect" /\ connects' = connects)]_vars
    /\ (exit_flag /\ conn = "closing") ~> (ppc \in {"done", "crashed"})
    /\ [](ppc = "done" => buffer = <<>>)

\* the flag was set while records were buffered and a callback has closed the socket
C8_Witness ==
    /\ exit_flag
    /\ conn = "closing"
    /\ buffer # <<>>
    /\ ENABLED (\E ok \in S3Outcomes : \E raises \in BOOLEAN : OnClose(ok, raises))

(***************************************************************************)
(* Reference for the detector: "(last - mean) >= threshold * sd" over a    *)
(* window s of w elements, from the deviations themselves.  With           *)
(* S = sum(s): w*(x - mean) = w*x - S, so D2 = sum((w*x - S)^2) is         *)
(* w*w*sum((x - mean)^2), var = D2 / (w*w*max(w-1,1)), and sd is           *)
(* sqrt(var), or 1 when var = 0.                                           *)
(***************************************************************************)
RECURSIVE SumDev2(_, _, _)
SumDev2(s, w, S) ==
    IF s = <<>> THEN 0
    ELSE (w * Head(s) - S) * (w * Head(s) - S) + SumDev2(Tail(s), w, S)

AboveBy(s, w, t) ==
    LET S == SumSeq(s)
        d == w * s[Len(s)] - S
        D2 == SumDev2(s, w, S)
        m == Max(w - 1, 1)
    IN  IF D2 = 0 THEN d >= t * w
        ELSE IF t >= 0 THEN d >= 0 /\ d * d * m >= t * t * D2
        ELSE d >= 0 \/ d * d * m <= t * t * D2

IsConstant(s) == \A i \in DOMAIN s : s[i] = s[1]

BelowMean(s, w) == w * s[Len(s)] < SumSeq(s)

\* what C11 says of a returned call, its consequences drawn for the thresholds in T
DetectorContract(T) ==
    ret # <<>> =>
        LET w == call.window
            t == call.threshold
            full == Len(call.series) >= w
            s == LastN(call.series, w)
            r == ret[1]
        IN  /\ r.is_spike = (full /\ AboveBy(s, w, t))
            /\ (call.series = TestSeries(50) /\ w = 30 /\ t = 2) =>
                  (r.is_spike /\ r.z.sgn > 0 /\ r.z.num > 4 * r.z.den)
            /\ (full /\ t \in T /\ IsConstant(s)) => ~r.is_spike
            /\ (full /\ t \in T /\ BelowMean(s, w)) => ~r.is_spike

(***************************************************************************)
(* C11 as stated, for every threshold: is_spike is true exactly when the   *)
(* series has at least window elements and (last - mean) >= threshold*sd;  *)
(* [10]*29 + [50] with window 30 and threshold 2 is a spike with z > 2; a  *)
(* constant window is never a spike; a last element below the window mean  *)
(* is never a spike.  A threshold of 0 (constant window) or below 0 (last  *)
(* element below the mean) refutes the last two.                           *)
(***************************************************************************)
C11_AnyThreshold == DetectorContract((-DetMaxThreshold)..DetMaxThreshold)

(***************************************************************************)
(* C11 amended: the same, with "a constant window is never a spike" and    *)
(* "a last element below the window mean is never a spike" stated for      *)
(* thresholds above 0.                                                     *)
(***************************************************************************)
C11_PositiveThreshold == DetectorContract(1..DetMaxThreshold)

\* the test's call has returned a spike
C11_Witness ==
    /\ ret # <<>>
    /\ call.series = TestSeries(50)
    /\ call.window = 30
    /\ call.threshold = 2
    /\ ret[1].is_spike

(***************************************************************************)
(* C12: every snapshot the consumer writes, finalization or heartbeat,     *)
(* carries a last_updated_ms that is not below the one of the snapshot it  *)
(* replaces.                                                               *)
(***************************************************************************)
C12_MonotoneStamp ==
    [][(metricsFile' # metricsFile /\ metricsFile.state = "complete") =>
          /\ metricsFile'.state = "complete"
          /\ metricsFile'.doc.last_updated_ms >= metricsFile.doc.last_updated_ms]_vars

\* a finalization snapshot has replaced a heartbeat snapshot, which had itself
\* replaced an earlier snapshot
C12_Witness ==
    /\ last_heartbeat > 1
    /\ metricsFile.state = "complete"
    /\ metricsFile.doc.trades_per_sec > 0
    /\ metricsFile.doc.last_updated_ms >= NowMs(last_heartbeat)
    /\ Len(counts_by_second) >= 2

\* normalized trades whose publish to the bus failed
BusFailures == (nextId - 1) - Len(bus)

RECURSIVE BodySizes(_)
BodySizes(log) == IF log = <<>> THEN 0 ELSE Len(Head(log).body) + BodySizes(Tail(log))

\* records that have reached the buffer so far: still in it, or uploaded from it
Stored == Len(buffer) + BodySizes(s3log)

(***************************************************************************)
(* C13 as stated: in a callback in which a publish to the bus failed (and  *)
(* every entry parsed), every trade entry of the frame reached the buffer, *)
(* the failed record included, and nothing already published or failed is  *)
(* published again.  In producer_binance.py the exception of put_records   *)
(* ends the callback, and the later trades of the frame are lost.          *)
(***************************************************************************)
C13_FailedPublishStillBuffered ==
    [][(BusFailures' > BusFailures /\ badFrames' = badFrames) =>
          /\ Stored' - Stored = frameTrades'
          /\ IsPrefix(bus, bus')
          /\ \A j \in (Len(bus) + 1)..Len(bus') : bus'[j] >= nextId]_vars

(***************************************************************************)
(* C14 as stated, for producer_crypto.py: once a frame has been handled    *)
(* and no upload has failed, the buffer holds fewer than BATCH_SIZE        *)
(* records.  A frame whose entry fails to parse after earlier entries were *)
(* buffered leaves the callback before the size test and refutes it.       *)
(***************************************************************************)
C14_BufferBelowBatch ==
    (program = "crypto" /\ nframes > 0 /\ putCalls = Len(s3log)) =>
        Len(buffer) < BATCH_SIZE

\* what C15 says of the rename loop: at most RETRIES attempts, a return
\* straight after the first rename that succeeds, the in-place overwrite
\* only after RETRIES failed attempts, and the new document in the target
\* whenever the call returns
RenameLoopContract ==
    /\ wpc = "replace" => wtry < RETRIES
    /\ wpc \in {"inplace", "inplace_open", "unlink"} => wtry = RETRIES

\* a step in which the call returns, given what it may leave of the temporary file
ReturnContract(leftovers) ==
    (wpc \notin {"idle", "crashed"} /\ wpc' = "idle") =>
        /\ metricsFile' = Complete(wdoc)
        /\ wpc = "replace" => (wtry < RETRIES /\ tmpFile' = Missing)
        /\ wpc = "unlink" => tmpFile' \in ({Missing} \cup leftovers)

(***************************************************************************)
(* C15 as stated: at most 10 rename attempts, an immediate return after    *)
(* the first successful rename, the in-place overwrite only after 10       *)
(* failed attempts, and on every return the target holds the new document  *)
(* and no temporary file is left.  A tmp.unlink() that raises after the    *)
(* in-place overwrite (the exception is ignored) refutes the last part.    *)
(***************************************************************************)
C15_NoTmpLeft == []RenameLoopContract /\ [][ReturnContract({})]_vars

(***************************************************************************)
(* C15 amended: the same, except that after the in-place overwrite the     *)
(* temporary file is left behind, complete, when deleting it fails.        *)
(***************************************************************************)
C15_TmpLeftOnlyIfUnlinkFails ==
    []RenameLoopContract /\ [][ReturnContract({Complete(wdoc)})]_vars

\* a call has returned through the in-place overwrite and removed its temporary file
C15_Witness ==
    /\ wpc = "idle"
    /\ wtry = RETRIES
    /\ metricsFile = Complete(wdoc)
    /\ tmpFile = Missing

(***************************************************************************)
(* C16 as stated, its safety part: while exit_flag is false a new          *)
(* connection is opened only when the 5 s backoff has passed since the     *)
(* previous connection ended.  A run_forever that returns (instead of      *)
(* raising) after the connection ended refutes it: the loop opens the next *)
(* connection at once.                                                     *)
(***************************************************************************)
C16_BackoffBeforeReconnect ==
    [][(~exit_flag /\ connects' > connects /\ connects > 0 /\ endedAt > 0) =>
          now - endedAt >= BACKOFF_SEC]_vars

(***************************************************************************)
(* C17: while fewer than 30 seconds have been finalized, the snapshot in   *)
(* the metrics file (each one written so far was written under the same    *)
(* condition) has is_spike = false and z = 0.0, and the alert log is       *)
(* empty; hence the first alert comes with the 30th finalization or later. *)
(***************************************************************************)
C17_NoSpikeBeforeWindow ==
    /\ Len(counts_by_second) < WINDOW =>
         /\ metricsFile.state = "complete" =>
              (~metricsFile.doc.is_spike /\ metricsFile.doc.z = ZeroZ)
         /\ alertsFile.lines = <<>>
    /\ [][(Len(counts_by_second') < WINDOW /\ metricsFile' # metricsFile) =>
            (~metricsFile'.doc.is_spike /\ metricsFile'.doc.z = ZeroZ
             /\ alertsFile' = alertsFile)]_vars

\* a second with more than one trade was finalized before the window was full
C17_Witness ==
    /\ Len(counts_by_second) \in 1..(WINDOW - 1)
    /\ nread > 0
    /\ metricsFile.state = "complete"
    /\ metricsFile.doc.trades_per_sec >= 2
    /\ ~metricsFile.doc.is_spike

(***************************************************************************)
(* C18: any two successful flushes write to different object-store keys,   *)
(* so every uploaded record is still in the object store afterwards, also  *)
(* when the two flushes happen within the same second.                     *)
(***************************************************************************)
\* the object store after the uploads of s3log: the body last put under key k
ObjectAt(k) ==
    LET idx == {i \in DOMAIN s3log : s3log[i].key = k}
    IN  IF idx = {} THEN <<>>
        ELSE s3log[CHOOSE i \in idx : \A j \in idx : j <= i].body

C18_DistinctKeys ==
    /\ \A i, j \in DOMAIN s3log : i # j => s3log[i].key # s3log[j].key
    /\ \A i \in DOMAIN s3log :
         \A r \in DOMAIN s3log[i].body :
            \E q \in DOMAIN ObjectAt(s3log[i].key) :
               ObjectAt(s3log[i].key)[q] = s3log[i].body[r]

(***************************************************************************)
(* C19: when the metrics write or the alert append raises during a         *)
(* finalization, the aggregator stays consistent: each closed second has   *)
(* exactly one entry in counts_by_second, and every step that closes a     *)
(* second opens the new one with the triggering record counted in it.      *)
(***************************************************************************)
C19_ConsistentAfterRaise ==
    /\ consumed # <<>> => Len(counts_by_second) + 1 = Len(RunSizes(consumed))
    /\ [][Len(counts_by_second') > Len(counts_by_second) =>
            /\ current_second' = consumed'[Len(consumed')]
            /\ counter' = 1]_vars

(***************************************************************************)
(* C20: a heartbeat snapshot is written only when no record has been       *)
(* received for more than 3 s, and it never replaces the snapshot of a     *)
(* finalized second (trades_per_sec >= 1) written less than 3 s earlier.   *)
(***************************************************************************)
HeartbeatWritten == last_heartbeat' # last_heartbeat

C20_HeartbeatOnlyWhenIdle ==
    [][HeartbeatWritten =>
        /\ now - last_record > HEARTBEAT_SEC
        /\ (metricsFile.state = "complete" /\ metricsFile.doc.trades_per_sec >= 1) =>
              NowMs(now) - metricsFile.doc.last_updated_ms >= NowMs(HEARTBEAT_SEC)]_vars

====
